---- MODULE Spec2Model ----
(***************************************************************************)
(* Model of the two HTTP handlers of pdf-compress-app:                     *)
(*   pages/api/compress-and-store.js  (webhook mode and manual mode)       *)
(*   pages/api/store.js               (direct upload)                      *)
(* One behaviour is one invocation of one handler: the request is drawn    *)
(* when it is received, every await of the handler is a pair of steps      *)
(* (the collaborator settles, the handler continues), and the collaborators*)
(* (compression worker, object store, Writing_Uploads table) answer        *)
(* nondeterministically.  ConcSpec is a second specification, of several   *)
(* manual-mode invocations of compress-and-store served at once.           *)
(***************************************************************************)
EXTENDS Integers, Sequences, FiniteSets, TLC

VARIABLES
    env,            \* process.env as read at module load
    endpoint,       \* which handler serves the request
    req,            \* the request: method, headers, body
    pc,             \* position of the handler
    local,          \* the handler's local variables
    res,            \* the HTTP response sent, <<>> while none is sent
    corsHeaders,    \* the Access-Control-Allow-* headers were set
    workerCalls,    \* the calls made to the compression worker
    storage,        \* the object store: <<bucket, key>> -> content length
    uploads,        \* the uploads issued to the object store
    writingUploads, \* the Writing_Uploads table: id -> row
    dbUpdates,      \* the updates issued to the Writing_Uploads table
    settled,        \* what the awaited calls of the handler settled to
    fault,          \* a fault was thrown inside the handler
    uncaught        \* a fault left the handler uncaught

vars == <<env, endpoint, req, pc, local, res, corsHeaders, workerCalls,
          storage, uploads, writingUploads, dbUpdates, settled, fault, uncaught>>

----------------------------------------------------------------------------
\* Bounds of the model.

\* Sizes are drawn MaxDelta bytes around the threshold.
MaxDelta == 1
\* Date.now() takes the values 1..MaxClock.
MaxClock == 2
\* The invocations served at once.
MaxInvocations == 2

----------------------------------------------------------------------------
\* JavaScript values.  A value is its typeof and, for a number or a boolean,
\* its value; strings that are only tested for truthiness keep their own
\* representation ("" is the empty or absent string, <<>> the absent path).

JsUndef == [type |-> "undefined", v |-> 0]
JsStr == [type |-> "string", v |-> 0]
JsNum(n) == [type |-> "number", v |-> n]
JsBool(b) == [type |-> "boolean", v |-> IF b THEN 1 ELSE 0]

\* 200 * 1024, the threshold of both modes.
MIN_BYTES == 200 * 1024

NearThreshold == (MIN_BYTES - MaxDelta) .. (MIN_BYTES + MaxDelta)

----------------------------------------------------------------------------
\* Configuration (module-level constants of the two files).

SECRET == "s3cret"

Envs ==
    [SUPABASE_URL : {"", "https://proj.supabase.co"},
     SUPABASE_SERVICE_ROLE : {"service-role"},
     SUPABASE_BUCKET : {"", "docs"},
     DEFAULT_PDF_BUCKET : {""},
     WEBHOOK_SECRET : {"", SECRET},
     ALLOWED_ORIGINS : {<< <<"https://app", ".example", ".com">>,
                           <<"*", ".example", ".org">> >>}]

REQUIRED_ENVS_CS == {"SUPABASE_URL", "SUPABASE_SERVICE_ROLE"}
REQUIRED_ENVS_ST == {"SUPABASE_URL", "SUPABASE_SERVICE_ROLE", "SUPABASE_BUCKET"}

DEFAULT_BUCKET_CS ==
    IF env.SUPABASE_BUCKET # "" THEN env.SUPABASE_BUCKET
    ELSE IF env.DEFAULT_PDF_BUCKET # "" THEN env.DEFAULT_PDF_BUCKET
    ELSE ""

DEFAULT_BUCKET_ST == env.SUPABASE_BUCKET

WEBHOOK_SECRET == env.WEBHOOK_SECRET

RAW_ALLOWED == env.ALLOWED_ORIGINS

----------------------------------------------------------------------------
\* CORS helpers.  An origin and an allow-list entry are sequences of text
\* pieces: "https://app.example.com" is <<"https://app", ".example", ".com">>
\* and the entry "*.example.org" is <<"*", ".example", ".org">>.

\* pattern.startsWith('*.'): every piece after "*" starts with a dot.
StartsWithStarDot(pattern) == Len(pattern) >= 2 /\ pattern[1] = "*"

\* pattern.slice(1): the pattern without its leading "*".
SliceOne(pattern) == Tail(pattern)

\* origin.endsWith(suffix)
EndsWith(origin, suffix) ==
    /\ Len(suffix) <= Len(origin)
    /\ SubSeq(origin, Len(origin) - Len(suffix) + 1, Len(origin)) = suffix

\* Mutant: only an entry equal to the origin admits it.
isOriginAllowed_ExactOnly(origin) ==
    origin # <<>> /\ \E i \in 1..Len(RAW_ALLOWED) : RAW_ALLOWED[i] = origin

isOriginAllowed(origin) ==
    IF origin = <<>> THEN FALSE
    ELSE \E i \in 1..Len(RAW_ALLOWED) :
            \/ RAW_ALLOWED[i] = origin
            \/ /\ StartsWithStarDot(RAW_ALLOWED[i])
               /\ EndsWith(origin, SliceOne(RAW_ALLOWED[i]))

\* The Origin headers of the requests: absent, an exact entry, a subdomain
\* of the wildcard entry, the apex of the wildcard entry, and an origin no
\* entry matches.
Origins ==
    {<<>>,
     <<"https://app", ".example", ".com">>,
     <<"https://team", ".example", ".org">>,
     <<"https://example", ".org">>,
     <<"https://evil", ".attacker", ".net">>}

----------------------------------------------------------------------------
\* Locator resolution.  A record is
\*   [bucket_id, name, file_path, file_url, metadata_size, size]
\* bucket_id is a string ("" when absent or empty); name and file_path are
\* object paths, sequences of path segments (<<>> when absent); file_url is
\* the URL split at '/' (<<>> when absent), so that
\*   "https://h/storage/v1/object/public/b/x.pdf"
\* is <<"https:", "", "h", "storage", "v1", "object", "public", "b", "x.pdf">>.

\* A path is falsy when it is absent or the empty string.
Falsy(path) == path = <<>> \/ path = <<"">>

\* decodeURIComponent throws URIError on a malformed escape.
Malformed(seg) == seg = "50%off"

\* decodeURIComponent of one segment.
DecodeSeg(seg) ==
    CASE seg = "my%20docs" -> "my docs"
      [] seg = "scan%201.pdf" -> "scan 1.pdf"
      [] OTHER -> seg

Least(S) == CHOOSE i \in S : \A j \in S : i <= j

Returned(v) == [threw |-> FALSE, v |-> v]
Thrown(v) == [threw |-> TRUE, v |-> v]

\* The places where /\/object\/(?:public|sign(?:ed)?)\/([^/]+)/ matches: the
\* segment "object" after a slash, then public, sign or signed, then a
\* non-empty segment.
BucketMatches(url) ==
    {i \in 2..(Len(url) - 2) :
        /\ url[i] = "object"
        /\ url[i + 1] \in {"public", "sign", "signed"}
        /\ url[i + 2] # ""}

\* Mutant: the configured default bucket is tried before the record's.
deriveBucket_DefaultFirst(record) ==
    Returned(IF DEFAULT_BUCKET_CS # "" THEN DEFAULT_BUCKET_CS ELSE record.bucket_id)

deriveBucket(record) ==
    LET bucket == IF record.bucket_id # "" THEN record.bucket_id
                  ELSE DEFAULT_BUCKET_CS
    IN  IF bucket = "" /\ record.file_url # <<>>
        THEN IF BucketMatches(record.file_url) # {}
             THEN LET m1 == record.file_url[Least(BucketMatches(record.file_url)) + 2]
                  IN  IF Malformed(m1) THEN Thrown("") ELSE Returned(DecodeSeg(m1))
             ELSE Returned(bucket)
        ELSE Returned(bucket)

\* The places where file_url.indexOf('/object/') can match.
ObjectAt(url) == {i \in 2..(Len(url) - 1) : url[i] = "object"}

deriveObjectName(record, bucket) ==
    LET name == IF ~Falsy(record.name) THEN record.name
                ELSE IF ~Falsy(record.file_path) THEN record.file_path
                ELSE <<>>
    IN  IF Falsy(name) /\ record.file_url # <<>> /\ bucket # ""
        THEN IF ObjectAt(record.file_url) # {}
             THEN LET idx == Least(ObjectAt(record.file_url))
                      \* after.split('/'), after starting with "/object/"
                      parts == <<"">> \o SubSeq(record.file_url, idx, Len(record.file_url))
                      hits == {k \in 1..Len(parts) :
                                 ~Malformed(parts[k]) /\ DecodeSeg(parts[k]) = bucket}
                      bad == {k \in 1..Len(parts) : Malformed(parts[k])}
                  IN  IF hits = {}
                      THEN IF bad # {} THEN Thrown(<<>>) ELSE Returned(name)
                      ELSE IF bad # {} /\ Least(bad) < Least(hits)
                      THEN Thrown(<<>>)
                      ELSE IF Least(hits) < Len(parts)
                      THEN LET pathParts == SubSeq(parts, Least(hits) + 1, Len(parts))
                           IN  IF \E k \in 1..Len(pathParts) : Malformed(pathParts[k])
                               THEN Thrown(<<>>)
                               ELSE Returned([k \in 1..Len(pathParts) |->
                                                DecodeSeg(pathParts[k])])
                      ELSE Returned(name)
             ELSE Returned(name)
        ELSE Returned(name)

\* The size hint of lines 162-165.
SizeOf(record) ==
    IF record.metadata_size.type = "number" THEN record.metadata_size
    ELSE IF record.size.type = "number" THEN record.size
    ELSE JsUndef

----------------------------------------------------------------------------
\* Requests.

\* The Authorization header as text pieces, <<>> when absent.
AuthHeaders ==
    {<<>>, <<"Bearer ", SECRET>>, <<"Bearer ", "wrong">>}

\* auth.startsWith('Bearer ') ? auth.slice(7) : ''
BearerToken(auth) ==
    IF Len(auth) >= 1 /\ auth[1] = "Bearer "
    THEN (IF Len(auth) >= 2 THEN auth[2] ELSE "")
    ELSE ""

\* A storage key: a caller's path is Key("", 0, path), a synthesized key is
\* `compressed/${Date.now()}-${name}`.
Key(prefix, stamp, name) == [prefix |-> prefix, stamp |-> stamp, name |-> name]
NoKey == Key("", 0, "")

\* Base64 payloads: the typeof of the field and the length of the bytes it
\* decodes to; "undefined" stands for an absent or empty field.
B64Undef == [type |-> "undefined", len |-> 0]
B64(n) == [type |-> "string", len |-> n]
B64NotString == [type |-> "number", len |-> 0]

UrlOf(bucketSeg, pathSegs) ==
    <<"https:", "", "proj.supabase.co", "storage", "v1", "object", "public", bucketSeg>>
        \o pathSegs

\* The size hints <<metadata.size, size>> of the records.
SizeHints ==
    {<<m, JsUndef>> : m \in {JsUndef, JsStr} \cup {JsNum(n) : n \in NearThreshold}}
        \cup {<<JsStr, JsNum(MIN_BYTES)>>,
              <<JsUndef, JsNum(MIN_BYTES + MaxDelta)>>,
              <<JsNum(MIN_BYTES + MaxDelta), JsNum(MIN_BYTES)>>}

Record(bucket_id, name, file_path, file_url, hint) ==
    [bucket_id |-> bucket_id, name |-> name, file_path |-> file_path,
     file_url |-> file_url, metadata_size |-> hint[1], size |-> hint[2]]

Records ==
    {Record(b, n, fp, fu, h) :
        b \in {"", "uploads"},
        n \in {<<>>, <<"doc.pdf">>},
        fp \in {<<>>, <<"legacy", "old.pdf">>},
        fu \in {<<>>, UrlOf("my%20docs", <<"u1", "scan%201.pdf">>),
                UrlOf("50%off", <<"x.pdf">>),
                UrlOf("object", <<"x.pdf">>),
                UrlOf("my%20docs", <<"docs", "x.pdf">>)},
        h \in SizeHints}

EmptyBody ==
    [record |-> <<>>, new |-> <<>>,
     supabasePath |-> "", fileBase64 |-> B64Undef, dataBase64 |-> B64Undef,
     writingUploadId |-> "", bucket |-> "", path |-> "", fileName |-> "",
     upsert |-> JsUndef]

\* {record: ...} envelopes, and {new: ...} envelopes of the records that
\* state their bucket and name.
WebhookBodies ==
    {[EmptyBody EXCEPT !.record = <<r>>] : r \in Records}
        \cup {[EmptyBody EXCEPT !.new = <<r>>] :
                r \in {x \in Records : x.bucket_id # "" /\ x.name # <<>>
                                        /\ x.file_path = <<>> /\ x.file_url = <<>>}}

ManualBodies ==
    {[EmptyBody EXCEPT !.supabasePath = sp, !.fileBase64 = fb, !.writingUploadId = w] :
        sp \in {"", "in/big.pdf", "in/small.pdf", "in/missing.pdf"},
        fb \in {B64Undef, B64NotString} \cup {B64(n) : n \in NearThreshold},
        w \in {"", "w1"}}

StoreBodies ==
    {[EmptyBody EXCEPT !.dataBase64 = d[1], !.fileBase64 = d[2], !.path = k[1],
                       !.fileName = k[2], !.upsert = up, !.bucket = bu,
                       !.writingUploadId = w] :
        d \in {<<B64Undef, B64Undef>>, <<B64(MIN_BYTES), B64Undef>>,
               <<B64Undef, B64(MIN_BYTES + MaxDelta)>>,
               <<B64(MIN_BYTES), B64(MIN_BYTES + MaxDelta)>>},
        k \in {<<"", "">>, <<"Lucy.pdf", "">>, <<"new.pdf", "f.pdf">>, <<"", "f.pdf">>},
        up \in {JsUndef, JsBool(TRUE), JsBool(FALSE)},
        bu \in {"", "other"},
        w \in {"", "w1"}}

\* req.body is <<>> when the request carries none.  Only a POST carries one.
Requests(e) ==
    [method : {"POST"}, origin : Origins, authorization : AuthHeaders,
     body : {<<>>} \cup {<<b>> : b \in IF e = "compress-and-store"
                                         THEN WebhookBodies \cup ManualBodies
                                         ELSE StoreBodies}]
        \cup [method : {"OPTIONS", "GET"}, origin : Origins,
              authorization : AuthHeaders, body : {<<>>}]

\* req.body || {}
BodyOf(r) == IF r.body = <<>> THEN EmptyBody ELSE r.body[1]

extractRecordFromWebhook(body) ==
    IF body = <<>> THEN <<>>
    ELSE IF body[1].record # <<>> THEN body[1].record
    ELSE IF body[1].new # <<>> THEN body[1].new
    ELSE <<>>

----------------------------------------------------------------------------
\* Responses.

NoDetails == [msg |-> "", status |-> 0, text |-> ""]

NoJson ==
    [error |-> "", details |-> NoDetails, ok |-> FALSE, mode |-> "",
     skipped |-> FALSE, bucket |-> "", path |-> <<>>, key |-> NoKey,
     original_size_bytes |-> JsUndef, compressed_size_bytes |-> JsUndef,
     compression_ratio |-> JsUndef, overwrote |-> JsUndef, quality |-> JsUndef,
     writingUploadUpdated |-> FALSE, upsert |-> JsUndef]

\* res.status(status).json(json) or res.status(status).end()
Response(status, json) == <<[status |-> status, json |-> json]>>

\* Mutant: the catch block throws the fault again.
CatchBlock_Rethrow(statusCode, details) == [res |-> <<>>, uncaught |-> TRUE]

\* The catch block of a handler: e?.statusCode || 500 and the message.
CatchBlock(statusCode, details) ==
    [res |-> Response(IF statusCode # 0 THEN statusCode ELSE 500,
                      [NoJson EXCEPT !.error = "Internal Server Error",
                                     !.details = details]),
     uncaught |-> FALSE]

\* getAdminClientOrThrow: the required settings that are missing.
MissingEnvs(required) == {k \in required : env[k] = ""}

----------------------------------------------------------------------------
\* Collaborators.

NoWorkerBody ==
    [json |-> FALSE, ok |-> JsUndef, error |-> "", original_bytes |-> JsUndef,
     compressed_bytes |-> JsUndef, ratio |-> JsUndef, overwrote |-> JsUndef,
     quality |-> JsUndef]

\* What an awaited storage or table call settled to: it resolved, with an
\* error or not and, for a download, the length of the data, or it rejected.
Unsettled == [kind |-> "none", error |-> FALSE, len |-> 0]

Rejected == [kind |-> "reject", error |-> FALSE, len |-> 0]

Resolved(error, len) == [kind |-> "resolve", error |-> error, len |-> len]

\* What the awaited fetch settled to: an HTTP status and a body, or it
\* rejected.
NoAnswer == [kind |-> "none", httpOk |-> FALSE, status |-> 0, body |-> NoWorkerBody]

FetchRejected == [NoAnswer EXCEPT !.kind = "reject"]

HttpAnswer(httpOk, status, body) ==
    [kind |-> "resolve", httpOk |-> httpOk, status |-> status, body |-> body]

\* The answers of the compression worker; ratio is in thousandths.
WorkerAnswers ==
    {HttpAnswer(TRUE, 200,
        [NoWorkerBody EXCEPT !.json = TRUE, !.ok = JsBool(TRUE),
           !.original_bytes = JsNum(500000), !.compressed_bytes = JsNum(c),
           !.ratio = JsNum((c * 1000) \div 500000), !.overwrote = JsBool(TRUE),
           !.quality = JsStr]) : c \in {300000, 250000}}
    \cup {HttpAnswer(TRUE, 200,
        [NoWorkerBody EXCEPT !.json = TRUE, !.ok = JsBool(FALSE), !.error = e]) :
            e \in {"too_large", "compress_failed"}}
    \cup {HttpAnswer(FALSE, 413, [NoWorkerBody EXCEPT !.json = TRUE, !.error = "too_large"]),
          HttpAnswer(FALSE, 500, [NoWorkerBody EXCEPT !.json = TRUE, !.error = "compress_failed"]),
          HttpAnswer(TRUE, 200, NoWorkerBody),
          FetchRejected}

\* The objects stored before the invocation; one of them was stored by an
\* earlier manual invocation at clock value 1.
InitialStorage ==
    [o \in {<<"docs", Key("", 0, "in/big.pdf")>>,
            <<"docs", Key("", 0, "in/small.pdf")>>,
            <<"docs", Key("", 0, "Lucy.pdf")>>,
            <<"docs", Key("compressed/", 1, "auto.pdf")>>} |->
        IF o[2].name = "in/small.pdf" THEN MIN_BYTES
        ELSE IF o[2].name = "auto.pdf" THEN MIN_BYTES + MaxDelta + 1
        ELSE MIN_BYTES + MaxDelta]

NoRow ==
    [compressed_status |-> "", compressed_path |-> NoKey,
     original_size_bytes |-> JsUndef, compressed_size_bytes |-> JsUndef,
     compression_ratio |-> JsUndef]

----------------------------------------------------------------------------
\* The state after construction: the settings are read, nothing is received.

NoLocal ==
    [record |-> <<>>, bucket |-> "", name |-> <<>>, size |-> JsUndef,
     inputLen |-> 0, key |-> NoKey, target |-> "", shouldUpsert |-> FALSE,
     row |-> NoRow]

NoReq == [method |-> "", origin |-> <<>>, authorization |-> <<>>, body |-> <<>>]

Init ==
    /\ env \in Envs
    /\ endpoint = ""
    /\ req = NoReq
    /\ pc = "idle"
    /\ local = NoLocal
    /\ res = <<>>
    /\ corsHeaders = FALSE
    /\ workerCalls = <<>>
    /\ storage = InitialStorage
    /\ uploads = <<>>
    /\ writingUploads = [id \in {"w1"} |-> NoRow]
    /\ dbUpdates = <<>>
    /\ settled = [worker |-> NoAnswer, download |-> Unsettled,
                  upload |-> Unsettled, update |-> Unsettled]
    /\ fault = FALSE
    /\ uncaught = FALSE

World == <<storage, writingUploads>>
Effects == <<workerCalls, uploads, dbUpdates>>

\* return res.status(...).json(...): the invocation ends with a response.
Respond(r) ==
    /\ res' = r
    /\ pc' = "done"
    /\ UNCHANGED <<local, fault, uncaught>>

\* A fault thrown inside the try block reaches the catch block.
Throw(statusCode, details) ==
    /\ res' = CatchBlock(statusCode, details).res
    /\ uncaught' = CatchBlock(statusCode, details).uncaught
    /\ fault' = TRUE
    /\ pc' = "done"
    /\ UNCHANGED local

----------------------------------------------------------------------------
\* pages/api/compress-and-store.js

\* Mutant: the bearer check is never made.
CS_AuthRequired_Never(record) == FALSE

\* The bearer check of lines 148-155 is made for a webhook body only.
CS_AuthRequired(record) == record # <<>> /\ WEBHOOK_SECRET # ""

\* The handler from its entry to the mode switch (lines 133-155): applyCors,
\* the method check, getAdminClientOrThrow, the webhook authentication.
CS_Entry(r) ==
    /\ pc = "idle"
    /\ endpoint' = "compress-and-store"
    /\ req' = r
    /\ corsHeaders' = isOriginAllowed(r.origin)
    /\ LET record == extractRecordFromWebhook(r.body)
       IN  IF r.method = "OPTIONS"
           THEN Respond(Response(204, NoJson))
           ELSE IF r.method # "POST"
           THEN Respond(Response(405, [NoJson EXCEPT !.error = "Method Not Allowed"]))
           ELSE IF MissingEnvs(REQUIRED_ENVS_CS) # {}
           THEN Throw(500, [NoDetails EXCEPT !.msg = "Missing required env"])
           ELSE IF CS_AuthRequired(record)
                   /\ BearerToken(r.authorization) # WEBHOOK_SECRET
           THEN Respond(Response(401, [NoJson EXCEPT !.error = "Unauthorized"]))
           ELSE /\ pc' = IF record # <<>> THEN "cs_webhook" ELSE "cs_manual"
                /\ local' = [local EXCEPT !.record = record]
                /\ UNCHANGED <<res, fault, uncaught>>
    /\ UNCHANGED <<env, World, Effects, settled>>

\* Mutant: the gate skips below the threshold only, not at it.
CS_SkipWebhook_Strict(size) == size.type = "number" /\ size.v < MIN_BYTES

\* Mutant: the gate fails closed, skipping a size that is unknown.
CS_SkipWebhook_FailClosed(size) == size.type # "number" \/ size.v <= MIN_BYTES

\* The Threshold Gate of line 171.
CS_SkipWebhook(size) == size.type = "number" /\ size.v <= MIN_BYTES

\* Webhook mode up to the await of the worker call (lines 158-182).
CS_Webhook ==
    /\ pc = "cs_webhook"
    /\ LET record == local.record[1]
           b == deriveBucket(record)
           n == deriveObjectName(record, b.v)
           size == SizeOf(record)
       IN  IF b.threw \/ n.threw
           THEN /\ Throw(0, [NoDetails EXCEPT !.msg = "URI malformed"])
                /\ UNCHANGED workerCalls
           ELSE IF b.v = "" \/ Falsy(n.v)
           THEN /\ Respond(Response(400,
                    [NoJson EXCEPT !.error = "Missing bucket or object path"]))
                /\ UNCHANGED workerCalls
           ELSE IF CS_SkipWebhook(size)
           THEN /\ Respond(Response(200,
                    [NoJson EXCEPT !.ok = TRUE, !.mode = "webhook", !.skipped = TRUE,
                                   !.bucket = b.v, !.path = n.v]))
                /\ UNCHANGED workerCalls
           ELSE \* compressViaService: fetch(url, {bucket, name, overwrite: true})
                /\ workerCalls' = Append(workerCalls,
                        [bucket |-> b.v, name |-> n.v, overwrite |-> TRUE])
                /\ local' = [local EXCEPT !.bucket = b.v, !.name = n.v, !.size = size]
                /\ pc' = "cs_await_worker"
                /\ UNCHANGED <<res, fault, uncaught>>
    /\ UNCHANGED <<env, endpoint, req, corsHeaders, World, uploads, dbUpdates, settled>>

\* Mutant: the compressed size is read from the wrong field of the result.
CS_WebhookJson_WrongField(bucket, name, result) ==
    [NoJson EXCEPT !.ok = TRUE, !.mode = "webhook", !.bucket = bucket, !.path = name,
                   !.original_size_bytes = result.original_bytes,
                   !.compressed_size_bytes = result.original_bytes,
                   !.compression_ratio = result.ratio,
                   !.overwrote = result.overwrote,
                   !.quality = result.quality]

\* The response of lines 184-194 for the worker's result.
CS_WebhookJson(bucket, name, result) ==
    [NoJson EXCEPT !.ok = TRUE, !.mode = "webhook", !.bucket = bucket, !.path = name,
                   !.original_size_bytes = result.original_bytes,
                   !.compressed_size_bytes = result.compressed_bytes,
                   !.compression_ratio = result.ratio,
                   !.overwrote = result.overwrote,
                   !.quality = result.quality]

\* compressViaService after the fetch (lines 126-130): it throws on a fetch
\* that rejected, on a status that is not ok and on a body that is no JSON,
\* and returns the body otherwise.
compressViaService(resp) ==
    IF resp.kind = "reject"
    THEN Thrown([NoDetails EXCEPT !.msg = "fetch failed"])
    ELSE IF ~resp.httpOk
    THEN Thrown([msg |-> "Compressor failed", status |-> resp.status,
                 text |-> resp.body.error])
    ELSE IF ~resp.body.json
    THEN Thrown([NoDetails EXCEPT !.msg = "Unexpected token"])
    ELSE Returned(resp.body)

\* Mutant: after the worker's answer webhook mode does not return and runs
\* on into the upload of manual mode.
CS_AfterWorker_FallsThrough(resp) ==
    /\ pc = "cs_await_worker"
    /\ settled' = [settled EXCEPT !.worker = resp]
    /\ uploads' = Append(uploads,
            [bucket |-> local.bucket, key |-> Key("compressed/", 1, "auto.pdf"),
             len |-> MIN_BYTES + 1, upsert |-> TRUE])
    /\ pc' = "cs_await_upload"
    /\ UNCHANGED <<env, endpoint, req, corsHeaders, World, workerCalls, dbUpdates,
                   local, res, fault, uncaught>>

\* The awaited fetch settles with the worker's answer, or rejects, and the
\* handler resumes: the rest of webhook mode (lines 182-194).
CS_AfterWorker(resp) ==
    /\ pc = "cs_await_worker"
    /\ settled' = [settled EXCEPT !.worker = resp]
    /\ IF compressViaService(resp).threw
       THEN Throw(0, compressViaService(resp).v)
       ELSE Respond(Response(200,
                CS_WebhookJson(local.bucket, local.name, compressViaService(resp).v)))
    /\ UNCHANGED <<env, endpoint, req, corsHeaders, World, Effects>>

\* The buckets of the object store.
Buckets == {"docs", "other", "uploads", "my docs"}

\* Every shape a settled storage or table call can have.
Outcomes ==
    {Rejected} \cup {Resolved(e, n) : e \in BOOLEAN, n \in {0} \cup NearThreshold}

\* What an upload can settle to: the store refuses an existing key unless
\* upsert is set, and any call can fail or reject.
UploadOutcomes(call) ==
    {Resolved(TRUE, 0), Rejected}
        \cup IF /\ call.bucket \in Buckets
                /\ call.upsert \/ <<call.bucket, call.key>> \notin DOMAIN storage
             THEN {Resolved(FALSE, call.len)}
             ELSE {}

\* The object store after an upload that settled to `outcome`.
StorageAfter(call, outcome) ==
    IF outcome.kind = "resolve" /\ ~outcome.error
    THEN [o \in DOMAIN storage \cup {<<call.bucket, call.key>>} |->
            IF o = <<call.bucket, call.key>> THEN call.len ELSE storage[o]]
    ELSE storage

\* What a download can settle to.
DownloadOutcomes(bucket, key) ==
    {Resolved(TRUE, 0), Rejected}
        \cup IF <<bucket, key>> \in DOMAIN storage
             THEN {Resolved(FALSE, storage[<<bucket, key>>])}
             ELSE {}

\* What an update of Writing_Uploads can settle to.
UpdateOutcomes == {Resolved(FALSE, 0), Resolved(TRUE, 0), Rejected}

\* The table after update(row).eq('id', id) settled to `outcome`.
TableAfter(id, row, outcome) ==
    IF outcome.kind = "resolve" /\ ~outcome.error /\ id \in DOMAIN writingUploads
    THEN [writingUploads EXCEPT ![id] = row]
    ELSE writingUploads

\* +(compressed / original).toFixed(3), in thousandths.
RatioFixed3(compressed, original) ==
    (2000 * compressed + original) \div (2 * original)

\* The `upsert` option of the manual-mode upload (line 245).
CS_ManualUpsert == TRUE

\* Manual mode from the Threshold Gate to the await of the upload
\* (lines 224-245), for input bytes of length inputLen at clock value now.
CS_GateAndUpload(inputLen, now) ==
    IF inputLen <= MIN_BYTES
    THEN /\ Respond(Response(200,
                [NoJson EXCEPT !.ok = TRUE, !.mode = "manual", !.skipped = TRUE,
                               !.original_size_bytes = JsNum(inputLen)]))
         /\ UNCHANGED uploads
    ELSE /\ uploads' = Append(uploads,
                [bucket |-> DEFAULT_BUCKET_CS,
                 key |-> Key("compressed/", now, "auto.pdf"),
                 len |-> inputLen, upsert |-> CS_ManualUpsert])
         /\ local' = [local EXCEPT !.inputLen = inputLen,
                                   !.key = Key("compressed/", now, "auto.pdf")]
         /\ pc' = "cs_await_upload"
         /\ UNCHANGED <<res, fault, uncaught>>

\* Manual mode up to its first await (lines 198-222).
CS_Manual(now) ==
    /\ pc = "cs_manual"
    /\ LET body == BodyOf(req)
       IN  IF body.supabasePath = "" /\ body.fileBase64.type = "undefined"
           THEN /\ Respond(Response(400,
                    [NoJson EXCEPT !.error = "Provide supabasePath or fileBase64"]))
                /\ UNCHANGED uploads
           ELSE IF body.supabasePath # ""
           THEN \* storage.from(DEFAULT_BUCKET).download(supabasePath)
                /\ pc' = "cs_await_download"
                /\ UNCHANGED <<local, res, fault, uncaught, uploads>>
           ELSE IF body.fileBase64.type # "string"
           THEN /\ Throw(0, [NoDetails EXCEPT !.msg = "replace is not a function"])
                /\ UNCHANGED uploads
           ELSE CS_GateAndUpload(body.fileBase64.len, now)
    /\ UNCHANGED <<env, endpoint, req, corsHeaders, World, workerCalls, dbUpdates, settled>>

\* The download settles and manual mode resumes (lines 205-214).
CS_AfterDownload(outcome, now) ==
    /\ pc = "cs_await_download"
    /\ outcome \in DownloadOutcomes(DEFAULT_BUCKET_CS,
                                    Key("", 0, BodyOf(req).supabasePath))
    /\ settled' = [settled EXCEPT !.download = outcome]
    /\ IF outcome.kind = "reject"
       THEN Throw(0, [NoDetails EXCEPT !.msg = "download rejected"]) /\ UNCHANGED uploads
       ELSE IF outcome.error
       THEN /\ Respond(Response(500,
                    [NoJson EXCEPT !.error = "Failed to download from Storage",
                                   !.bucket = DEFAULT_BUCKET_CS]))
            /\ UNCHANGED uploads
       ELSE CS_GateAndUpload(outcome.len, now)
    /\ UNCHANGED <<env, endpoint, req, corsHeaders, World, workerCalls, dbUpdates>>

\* The row written to Writing_Uploads by manual mode (lines 253-261).
CS_Row(key, inputLen) ==
    [compressed_status |-> "done", compressed_path |-> key,
     original_size_bytes |-> JsNum(inputLen),
     compressed_size_bytes |-> JsNum(inputLen),
     compression_ratio |-> JsNum(RatioFixed3(inputLen, inputLen))]

\* Mutant: the response reports the link as updated whatever the update did.
CS_ManualJson_AlwaysLinked(key, inputLen, updated) ==
    [NoJson EXCEPT !.ok = TRUE, !.mode = "manual", !.bucket = DEFAULT_BUCKET_CS,
                   !.key = key,
                   !.original_size_bytes = JsNum(inputLen),
                   !.compressed_size_bytes = JsNum(inputLen),
                   !.compression_ratio = JsNum(RatioFixed3(inputLen, inputLen)),
                   !.writingUploadUpdated = TRUE]

\* The success response of manual mode (lines 266-276).
CS_ManualJson(key, inputLen, updated) ==
    [NoJson EXCEPT !.ok = TRUE, !.mode = "manual", !.bucket = DEFAULT_BUCKET_CS,
                   !.key = key,
                   !.original_size_bytes = JsNum(inputLen),
                   !.compressed_size_bytes = JsNum(inputLen),
                   !.compression_ratio = JsNum(RatioFixed3(inputLen, inputLen)),
                   !.writingUploadUpdated = updated]

\* The upload settles and manual mode resumes (lines 247-261).
CS_AfterUpload(outcome) ==
    /\ pc = "cs_await_upload"
    /\ outcome \in UploadOutcomes(uploads[Len(uploads)])
    /\ settled' = [settled EXCEPT !.upload = outcome]
    /\ storage' = StorageAfter(uploads[Len(uploads)], outcome)
    /\ IF outcome.kind = "reject"
       THEN Throw(0, [NoDetails EXCEPT !.msg = "upload rejected"]) /\ UNCHANGED dbUpdates
       ELSE IF outcome.error
       THEN /\ Respond(Response(500,
                    [NoJson EXCEPT !.error = "Failed to upload compressed file",
                                   !.bucket = DEFAULT_BUCKET_CS, !.key = local.key]))
            /\ UNCHANGED dbUpdates
       ELSE IF BodyOf(req).writingUploadId # ""
       THEN /\ dbUpdates' = Append(dbUpdates,
                    [id |-> BodyOf(req).writingUploadId,
                     row |-> CS_Row(local.key, local.inputLen)])
            /\ pc' = "cs_await_update"
            /\ UNCHANGED <<local, res, fault, uncaught>>
       ELSE /\ Respond(Response(200, CS_ManualJson(local.key, local.inputLen, FALSE)))
            /\ UNCHANGED dbUpdates
    /\ UNCHANGED <<env, endpoint, req, corsHeaders, writingUploads, workerCalls, uploads>>

\* The update settles and manual mode ends (lines 263-276).
CS_AfterUpdate(outcome) ==
    /\ pc = "cs_await_update"
    /\ settled' = [settled EXCEPT !.update = outcome]
    /\ writingUploads' = TableAfter(dbUpdates[Len(dbUpdates)].id,
                                    dbUpdates[Len(dbUpdates)].row, outcome)
    /\ IF outcome.kind = "reject"
       THEN Throw(0, [NoDetails EXCEPT !.msg = "update rejected"])
       ELSE Respond(Response(200,
                CS_ManualJson(local.key, local.inputLen, ~outcome.error)))
    /\ UNCHANGED <<env, endpoint, req, corsHeaders, storage, Effects>>

Clock == 1..MaxClock

----------------------------------------------------------------------------
\* pages/api/store.js

\* typeof upsert === 'boolean' ? upsert : false
ST_ShouldUpsert(upsert) == IF upsert.type = "boolean" THEN upsert.v = 1 ELSE FALSE

\* The success response of the store handler (lines 168-176).
ST_Json(bucket, key, len, shouldUpsert, updated) ==
    [NoJson EXCEPT !.ok = TRUE, !.bucket = bucket, !.key = key,
                   !.compressed_size_bytes = JsNum(len),
                   !.upsert = JsBool(shouldUpsert),
                   !.writingUploadUpdated = updated]

\* Mutant: the row is marked done without the key of the upload.
ST_Row_NoPath(key, len) ==
    [NoRow EXCEPT !.compressed_status = "done", !.compressed_size_bytes = JsNum(len)]

\* The row written to Writing_Uploads by the store handler (lines 152-158).
ST_Row(key, len) ==
    [NoRow EXCEPT !.compressed_status = "done", !.compressed_path = key,
                  !.compressed_size_bytes = JsNum(len)]

\* The handler from its entry to the await of the upload (lines 63-135).
ST_Entry(r, now) ==
    /\ pc = "idle"
    /\ endpoint' = "store"
    /\ req' = r
    /\ corsHeaders' = isOriginAllowed(r.origin)
    /\ LET body == BodyOf(r)
           bucket == IF body.bucket # "" THEN body.bucket ELSE DEFAULT_BUCKET_ST
           b64 == IF body.dataBase64.type # "undefined" THEN body.dataBase64
                  ELSE body.fileBase64
           key == IF body.path # "" THEN Key("", 0, body.path)
                  ELSE Key("compressed/", now, body.fileName)
       IN  IF r.method = "OPTIONS"
           THEN Respond(Response(204, NoJson)) /\ UNCHANGED uploads
           ELSE IF r.method # "POST"
           THEN /\ Respond(Response(405, [NoJson EXCEPT !.error = "Method Not Allowed"]))
                /\ UNCHANGED uploads
           ELSE IF WEBHOOK_SECRET # "" /\ BearerToken(r.authorization) # WEBHOOK_SECRET
           THEN /\ Respond(Response(401, [NoJson EXCEPT !.error = "Unauthorized"]))
                /\ UNCHANGED uploads
           ELSE IF MissingEnvs(REQUIRED_ENVS_ST) # {}
           THEN /\ Throw(500, [NoDetails EXCEPT !.msg = "Missing required env"])
                /\ UNCHANGED uploads
           ELSE IF b64.type = "undefined"
           THEN /\ Respond(Response(400, [NoJson EXCEPT !.error = "Missing data"]))
                /\ UNCHANGED uploads
           ELSE IF b64.type # "string"
           THEN /\ Throw(0, [NoDetails EXCEPT !.msg = "replace is not a function"])
                /\ UNCHANGED uploads
           ELSE IF body.path = "" /\ body.fileName = ""
           THEN /\ Respond(Response(400, [NoJson EXCEPT !.error = "Missing path and fileName"]))
                /\ UNCHANGED uploads
           ELSE /\ uploads' = Append(uploads,
                        [bucket |-> bucket, key |-> key, len |-> b64.len,
                         upsert |-> ST_ShouldUpsert(body.upsert)])
                /\ local' = [local EXCEPT !.bucket = bucket, !.key = key,
                                          !.inputLen = b64.len,
                                          !.shouldUpsert = ST_ShouldUpsert(body.upsert)]
                /\ pc' = "st_await_upload"
                /\ UNCHANGED <<res, fault, uncaught>>
    /\ UNCHANGED <<env, World, workerCalls, dbUpdates, settled>>

\* The upload settles and the handler resumes (lines 137-159).
ST_AfterUpload(outcome) ==
    /\ pc = "st_await_upload"
    /\ outcome \in UploadOutcomes(uploads[Len(uploads)])
    /\ settled' = [settled EXCEPT !.upload = outcome]
    /\ storage' = StorageAfter(uploads[Len(uploads)], outcome)
    /\ IF outcome.kind = "reject"
       THEN Throw(0, [NoDetails EXCEPT !.msg = "upload rejected"]) /\ UNCHANGED dbUpdates
       ELSE IF outcome.error
       THEN /\ Respond(Response(500, [NoJson EXCEPT !.error = "Upload failed"]))
            /\ UNCHANGED dbUpdates
       ELSE IF BodyOf(req).writingUploadId # ""
       THEN /\ dbUpdates' = Append(dbUpdates,
                    [id |-> BodyOf(req).writingUploadId,
                     row |-> ST_Row(local.key, local.inputLen)])
            /\ pc' = "st_await_update"
            /\ UNCHANGED <<local, res, fault, uncaught>>
       ELSE /\ Respond(Response(200,
                    ST_Json(local.bucket, local.key, local.inputLen,
                            local.shouldUpsert, FALSE)))
            /\ UNCHANGED dbUpdates
    /\ UNCHANGED <<env, endpoint, req, corsHeaders, writingUploads, workerCalls, uploads>>

\* The update settles and the handler ends (lines 161-176).
ST_AfterUpdate(outcome) ==
    /\ pc = "st_await_update"
    /\ settled' = [settled EXCEPT !.update = outcome]
    /\ writingUploads' = TableAfter(dbUpdates[Len(dbUpdates)].id,
                                    dbUpdates[Len(dbUpdates)].row, outcome)
    /\ IF outcome.kind = "reject"
       THEN Throw(0, [NoDetails EXCEPT !.msg = "update rejected"])
       ELSE Respond(Response(200,
                ST_Json(local.bucket, local.key, local.inputLen,
                        local.shouldUpsert, ~outcome.error)))
    /\ UNCHANGED <<env, endpoint, req, corsHeaders, storage, Effects>>

----------------------------------------------------------------------------
\* One invocation of one handler.

\* The host runtime invokes a handler with a request.
CS_Invoke == pc = "idle" /\ \E r \in Requests("compress-and-store") : CS_Entry(r)

ST_Invoke == pc = "idle" /\ \E r \in Requests("store"), now \in Clock : ST_Entry(r, now)

Next ==
    \/ CS_Invoke
    \/ CS_Webhook
    \/ \E a \in WorkerAnswers : CS_AfterWorker(a)
    \/ \E now \in Clock : CS_Manual(now)
    \/ \E o \in Outcomes, now \in Clock : CS_AfterDownload(o, now)
    \/ \E o \in Outcomes : CS_AfterUpload(o)
    \/ \E o \in UpdateOutcomes : CS_AfterUpdate(o)
    \/ ST_Invoke
    \/ \E o \in Outcomes : ST_AfterUpload(o)
    \/ \E o \in UpdateOutcomes : ST_AfterUpdate(o)

Spec == Init /\ [][Next]_vars

\* The steps the handler takes on its own are taken; nothing makes a
\* collaborator answer.
LiveSpec ==
    /\ Spec
    /\ WF_vars(CS_Webhook)
    /\ WF_vars(\E now \in Clock : CS_Manual(now))

----------------------------------------------------------------------------
\* Concurrent invocations of manual mode of compress-and-store.  The host
\* runtime serves several requests at once: each invocation runs from one
\* await to the next without interruption, and the invocations share the
\* object store, the table and the clock.  Here req, pc, local, res,
\* corsHeaders, settled and fault hold one value per invocation, and an
\* upload or an update records the invocation that issued it.

Invocations == 1..MaxInvocations

\* The payload sizes of the concurrent requests.
ConcSizes == MIN_BYTES..(MIN_BYTES + MaxDelta + 1)

\* Manual requests: a payload, or a source path, with or without an
\* external id.
ConcRequests ==
    {[method |-> "POST", origin |-> <<>>, authorization |-> <<>>,
      body |-> <<[EmptyBody EXCEPT !.supabasePath = in[1], !.fileBase64 = in[2],
                                   !.writingUploadId = w]>>] :
        in \in {<<"", B64(n)>> : n \in ConcSizes} \cup {<<"in/big.pdf", B64Undef>>},
        w \in {"", "w1"}}

ConcInit ==
    /\ env \in {e \in Envs : e.SUPABASE_URL # "" /\ e.SUPABASE_BUCKET # ""}
    /\ endpoint = "compress-and-store"
    /\ req = [i \in Invocations |-> NoReq]
    /\ pc = [i \in Invocations |-> "idle"]
    /\ local = [i \in Invocations |-> NoLocal]
    /\ res = [i \in Invocations |-> <<>>]
    /\ corsHeaders = [i \in Invocations |-> FALSE]
    /\ workerCalls = <<>>
    /\ storage = InitialStorage
    /\ uploads = <<>>
    /\ writingUploads = [id \in {"w1"} |-> NoRow]
    /\ dbUpdates = <<>>
    /\ settled = [i \in Invocations |->
                    [worker |-> NoAnswer, download |-> Unsettled,
                     upload |-> Unsettled, update |-> Unsettled]]
    /\ fault = [i \in Invocations |-> FALSE]
    /\ uncaught = FALSE

\* Invocation i ends with a response.
ConcRespond(i, r) ==
    /\ res' = [res EXCEPT ![i] = r]
    /\ pc' = [pc EXCEPT ![i] = "done"]
    /\ UNCHANGED <<local, fault, uncaught>>

\* A fault thrown in invocation i reaches its catch block.
ConcThrow(i, statusCode, details) ==
    /\ res' = [res EXCEPT ![i] = CatchBlock(statusCode, details).res]
    /\ uncaught' = (uncaught \/ CatchBlock(statusCode, details).uncaught)
    /\ fault' = [fault EXCEPT ![i] = TRUE]
    /\ pc' = [pc EXCEPT ![i] = "done"]
    /\ UNCHANGED local

\* The upload invocation i issued.
ConcUploadOf(i) == uploads[CHOOSE k \in 1..Len(uploads) : uploads[k].by = i]

\* The update invocation i issued.
ConcUpdateOf(i) == dbUpdates[CHOOSE k \in 1..Len(dbUpdates) : dbUpdates[k].by = i]

\* Manual mode of invocation i from the Threshold Gate to the await of the
\* upload (lines 224-245).
Conc_GateAndUpload(i, inputLen, now) ==
    IF inputLen <= MIN_BYTES
    THEN /\ ConcRespond(i, Response(200,
                [NoJson EXCEPT !.ok = TRUE, !.mode = "manual", !.skipped = TRUE,
                               !.original_size_bytes = JsNum(inputLen)]))
         /\ UNCHANGED uploads
    ELSE /\ uploads' = Append(uploads,
                [bucket |-> DEFAULT_BUCKET_CS,
                 key |-> Key("compressed/", now, "auto.pdf"),
                 len |-> inputLen, upsert |-> CS_ManualUpsert, by |-> i])
         /\ local' = [local EXCEPT ![i].inputLen = inputLen,
                                   ![i].key = Key("compressed/", now, "auto.pdf")]
         /\ pc' = [pc EXCEPT ![i] = "cs_await_upload"]
         /\ UNCHANGED <<res, fault, uncaught>>

\* Invocation i receives request r and runs to its first await (lines
\* 133-245): the request is a POST without record, which is not
\* authenticated.
Conc_Invoke(i, r, now) ==
    /\ pc[i] = "idle"
    /\ req' = [req EXCEPT ![i] = r]
    /\ corsHeaders' = [corsHeaders EXCEPT ![i] = isOriginAllowed(r.origin)]
    /\ LET body == BodyOf(r)
       IN  IF r.method # "POST"
           THEN /\ ConcRespond(i, Response(405,
                        [NoJson EXCEPT !.error = "Method Not Allowed"]))
                /\ UNCHANGED uploads
           ELSE IF MissingEnvs(REQUIRED_ENVS_CS) # {}
           THEN /\ ConcThrow(i, 500, [NoDetails EXCEPT !.msg = "Missing required env"])
                /\ UNCHANGED uploads
           ELSE IF body.supabasePath = "" /\ body.fileBase64.type = "undefined"
           THEN /\ ConcRespond(i, Response(400,
                        [NoJson EXCEPT !.error = "Provide supabasePath or fileBase64"]))
                /\ UNCHANGED uploads
           ELSE IF body.supabasePath # ""
           THEN /\ pc' = [pc EXCEPT ![i] = "cs_await_download"]
                /\ UNCHANGED <<local, res, fault, uncaught, uploads>>
           ELSE Conc_GateAndUpload(i, body.fileBase64.len, now)
    /\ UNCHANGED <<env, endpoint, World, workerCalls, dbUpdates, settled>>

\* The download of invocation i settles and the invocation resumes.
Conc_AfterDownload(i, outcome, now) ==
    /\ pc[i] = "cs_await_download"
    /\ outcome \in DownloadOutcomes(DEFAULT_BUCKET_CS,
                                    Key("", 0, BodyOf(req[i]).supabasePath))
    /\ settled' = [settled EXCEPT ![i].download = outcome]
    /\ IF outcome.kind = "reject"
       THEN /\ ConcThrow(i, 0, [NoDetails EXCEPT !.msg = "download rejected"])
            /\ UNCHANGED uploads
       ELSE IF outcome.error
       THEN /\ ConcRespond(i, Response(500,
                    [NoJson EXCEPT !.error = "Failed to download from Storage",
                                   !.bucket = DEFAULT_BUCKET_CS]))
            /\ UNCHANGED uploads
       ELSE Conc_GateAndUpload(i, outcome.len, now)
    /\ UNCHANGED <<env, endpoint, req, corsHeaders, World, workerCalls, dbUpdates>>

\* The upload of invocation i settles and the invocation resumes.
Conc_AfterUpload(i, outcome) ==
    /\ pc[i] = "cs_await_upload"
    /\ outcome \in UploadOutcomes(ConcUploadOf(i))
    /\ settled' = [settled EXCEPT ![i].upload = outcome]
    /\ storage' = StorageAfter(ConcUploadOf(i), outcome)
    /\ IF outcome.kind = "reject"
       THEN /\ ConcThrow(i, 0, [NoDetails EXCEPT !.msg = "upload rejected"])
            /\ UNCHANGED dbUpdates
       ELSE IF outcome.error
       THEN /\ ConcRespond(i, Response(500,
                    [NoJson EXCEPT !.error = "Failed to upload compressed file",
                                   !.bucket = DEFAULT_BUCKET_CS, !.key = local[i].key]))
            /\ UNCHANGED dbUpdates
       ELSE IF BodyOf(req[i]).writingUploadId # ""
       THEN /\ dbUpdates' = Append(dbUpdates,
                    [id |-> BodyOf(req[i]).writingUploadId,
                     row |-> CS_Row(local[i].key, local[i].inputLen), by |-> i])
            /\ pc' = [pc EXCEPT ![i] = "cs_await_update"]
            /\ UNCHANGED <<local, res, fault, uncaught>>
       ELSE /\ ConcRespond(i, Response(200,
                    CS_ManualJson(local[i].key, local[i].inputLen, FALSE)))
            /\ UNCHANGED dbUpdates
    /\ UNCHANGED <<env, endpoint, req, corsHeaders, writingUploads, workerCalls, uploads>>

\* The update of invocation i settles and the invocation ends.
Conc_AfterUpdate(i, outcome) ==
    /\ pc[i] = "cs_await_update"
    /\ settled' = [settled EXCEPT ![i].update = outcome]
    /\ writingUploads' = TableAfter(ConcUpdateOf(i).id, ConcUpdateOf(i).row, outcome)
    /\ IF outcome.kind = "reject"
       THEN ConcThrow(i, 0, [NoDetails EXCEPT !.msg = "update rejected"])
       ELSE ConcRespond(i, Response(200,
                CS_ManualJson(local[i].key, local[i].inputLen, ~outcome.error)))
    /\ UNCHANGED <<env, endpoint, req, corsHeaders, storage, Effects>>

\* Every shape a settled storage call of the concurrent requests can have.
ConcOutcomes ==
    {Rejected} \cup {Resolved(e, n) : e \in BOOLEAN, n \in {0} \cup ConcSizes}

ConcNext ==
    \/ \E i \in Invocations, r \in ConcRequests, now \in Clock : Conc_Invoke(i, r, now)
    \/ \E i \in Invocations, o \in ConcOutcomes, now \in Clock : Conc_AfterDownload(i, o, now)
    \/ \E i \in Invocations, o \in ConcOutcomes : Conc_AfterUpload(i, o)
    \/ \E i \in Invocations, o \in UpdateOutcomes : Conc_AfterUpdate(i, o)

ConcSpec == ConcInit /\ [][ConcNext]_vars

----------------------------------------------------------------------------
\* Vocabulary of the properties.

Done == pc = "done"

Status == IF res = <<>> THEN 0 ELSE res[1].status
Json == IF res = <<>> THEN NoJson ELSE res[1].json

\* The outcome an invocation reports in its response.
Outcome ==
    IF res = <<>> THEN "none"
    ELSE IF Status = 200 /\ Json.ok /\ Json.skipped THEN "skipped"
    ELSE IF Status = 200 /\ Json.ok THEN "done"
    ELSE IF Status = 204 THEN "preflight"
    ELSE IF Status = 401 THEN "unauthorized"
    ELSE IF Status \in {400, 405} THEN "rejected"
    ELSE "error"

\* The request is an event: a POST to compress-and-store with a record.
IsEvent ==
    /\ endpoint = "compress-and-store"
    /\ req.method = "POST"
    /\ extractRecordFromWebhook(req.body) # <<>>

EventRecord == extractRecordFromWebhook(req.body)[1]

\* The deployment has the settings the handler requires.
Configured ==
    MissingEnvs(IF endpoint = "store" THEN REQUIRED_ENVS_ST ELSE REQUIRED_ENVS_CS) = {}

Authorized == WEBHOOK_SECRET = "" \/ BearerToken(req.authorization) = WEBHOOK_SECRET

\* The resolution rules produce a bucket and a name for the event's record.
Resolvable ==
    /\ ~deriveBucket(EventRecord).threw
    /\ deriveBucket(EventRecord).v # ""
    /\ ~deriveObjectName(EventRecord, deriveBucket(EventRecord).v).threw
    /\ ~Falsy(deriveObjectName(EventRecord, deriveBucket(EventRecord).v).v)

SizeKnown == SizeOf(EventRecord).type = "number"
SmallEvent == IsEvent /\ SizeKnown /\ SizeOf(EventRecord).v <= MIN_BYTES
LargeOrUnknownEvent == IsEvent /\ (~SizeKnown \/ SizeOf(EventRecord).v > MIN_BYTES)

\* No status record is, or was asked to be, pending.
NoPending ==
    /\ \A id \in DOMAIN writingUploads : writingUploads[id].compressed_status # "pending"
    /\ \A i \in 1..Len(dbUpdates) : dbUpdates[i].row.compressed_status # "pending"

\* The invocation changed nothing: no worker call, no upload, no object
\* stored or removed, no status update.
NoMutation ==
    /\ workerCalls = <<>>
    /\ uploads = <<>>
    /\ dbUpdates = <<>>
    /\ storage = InitialStorage
    /\ \A id \in DOMAIN writingUploads : writingUploads[id] = NoRow

\* The worker call failed: the fetch rejected, the HTTP status is not ok,
\* the body is no JSON, or the body is not ok.
WorkerFailed(a) ==
    a.kind = "reject" \/ ~a.httpOk \/ ~a.body.json \/ a.body.ok # JsBool(TRUE)

WorkerAnswered == settled.worker.kind # "none"

NoMetrics ==
    /\ Json.compressed_size_bytes = JsUndef
    /\ Json.compression_ratio = JsUndef

----------------------------------------------------------------------------
\* C1 (as stated): every event whose size is known and at most the threshold
\* ends in the skipped outcome.
C1_AsStated == (SmallEvent /\ Configured /\ Done) => Outcome = "skipped"

\* C1 (amended): an event whose size is known and at most the threshold never
\* has the worker called and never enters pending, whoever sent it and
\* whatever its locator; when it is authorized and its locator resolves, the
\* invocation ends in the skipped outcome.
C1_SmallEventSkipped ==
    SmallEvent =>
        /\ workerCalls = <<>>
        /\ pc # "cs_await_worker"
        /\ NoPending
        /\ (Configured /\ Authorized /\ Resolvable /\ Done) => Outcome = "skipped"

\* An authorized event of exactly the threshold size was skipped.
C1_Witness ==
    /\ SmallEvent /\ Configured /\ Authorized /\ Resolvable /\ Done
    /\ SizeOf(EventRecord).v = MIN_BYTES
    /\ Outcome = "skipped"

\* C2: for an authorized event with a resolvable locator whose size is
\* unknown or above the threshold, the gate decides Process and the handler
\* calls the worker exactly once, for the resolved locator, whatever the
\* worker answers: once the call is made no second one follows.
C2_ProcessCallsWorkerOnce ==
    (LargeOrUnknownEvent /\ Configured /\ Authorized /\ Resolvable) =>
        /\ pc \in {"cs_webhook", "cs_await_worker", "done"}
        /\ pc = "cs_webhook" => workerCalls = <<>>
        /\ pc \in {"cs_await_worker", "done"} =>
            /\ Len(workerCalls) = 1
            /\ workerCalls[1].bucket = deriveBucket(EventRecord).v
            /\ workerCalls[1].name =
                 deriveObjectName(EventRecord, deriveBucket(EventRecord).v).v
        /\ Done => Outcome # "skipped"

\* An event whose size is not a number was processed, the worker failed,
\* and the invocation ended with the one call made.
C2_Witness ==
    /\ LargeOrUnknownEvent /\ Configured /\ Authorized /\ Resolvable /\ Done
    /\ ~SizeKnown
    /\ WorkerAnswered /\ WorkerFailed(settled.worker)
    /\ Len(workerCalls) = 1

\* C3: with a webhook secret configured, an event, or a POST to the store
\* endpoint, whose bearer token is not the secret is answered 401 (by a
\* deployment that has its required settings), and whatever the method or
\* the settings the invocation mutates nothing: no worker call, no upload,
\* no stored object changed, no status update.
C3_BadTokenRejected ==
    (/\ WEBHOOK_SECRET # ""
     /\ BearerToken(req.authorization) # WEBHOOK_SECRET
     /\ \/ endpoint = "store"
        \/ endpoint = "compress-and-store" /\ extractRecordFromWebhook(req.body) # <<>>)
    =>  /\ NoMutation
        /\ (Done /\ req.method = "POST" /\ (endpoint = "store" \/ Configured))
              => Status = 401

\* An event with a resolvable locator and a size above the threshold, sent
\* with a wrong token, was answered 401.
C3_Witness ==
    /\ IsEvent /\ Configured /\ Resolvable /\ Done
    /\ WEBHOOK_SECRET # ""
    /\ req.authorization = <<"Bearer ", "wrong">>
    /\ SizeKnown /\ SizeOf(EventRecord).v > MIN_BYTES
    /\ Status = 401

\* C4: when the worker call fails after processing has started, the
\* invocation ends in the error outcome with no compression metrics, never
\* in a success outcome.
C4_WorkerFailureIsError ==
    (IsEvent /\ Done /\ WorkerAnswered /\ WorkerFailed(settled.worker)) =>
        /\ Outcome = "error"
        /\ NoMetrics

\* C5: when the worker answers ok: true, the invocation ends in the done
\* outcome and the compressed size and ratio it returns are the worker's.
C5_OkIsDoneWithWorkerMetrics ==
    (IsEvent /\ Done /\ WorkerAnswered /\ ~WorkerFailed(settled.worker)) =>
        /\ Outcome = "done"
        /\ Json.compressed_size_bytes = settled.worker.body.compressed_bytes
        /\ Json.compression_ratio = settled.worker.body.ratio

\* The worker reported 250000 bytes at ratio 0.5 and the response says so.
C5_Witness ==
    /\ IsEvent /\ Done /\ WorkerAnswered /\ ~WorkerFailed(settled.worker)
    /\ Json.compressed_size_bytes = JsNum(250000)
    /\ Json.compression_ratio = JsNum(500)

\* C6: an invocation that called the worker eventually ends with a response,
\* even when the worker never answers.
C6_WorkerCallBounded == (pc = "cs_await_worker") ~> Done

\* C7: every invocation that ends, ends with a response, and no fault leaves
\* the handler uncaught: a fault thrown at any step is answered 500.
C7_FaultsAreCaught ==
    /\ ~uncaught
    /\ Done => res # <<>>
    /\ (Done /\ fault) => (Status = 500 /\ Json.error = "Internal Server Error")

\* A storage upload rejected and the invocation still ended with a response.
C7_Witness ==
    /\ Done /\ fault
    /\ settled.upload.kind = "reject"
    /\ Status = 500

\* The response the webhook mode gives when the worker's answer is `a`.
ResponseFor(a) ==
    IF compressViaService(a).threw
    THEN CatchBlock(0, compressViaService(a).v).res
    ELSE Response(200, CS_WebhookJson(local.bucket, local.name, compressViaService(a).v))

\* C8: the response produced for a too_large answer of the worker differs
\* from the response produced for any other failure of the worker.
C8_TooLargeIsDistinct ==
    (IsEvent /\ Done /\ WorkerAnswered /\ settled.worker.body.error = "too_large") =>
        \A g \in WorkerAnswers :
            (WorkerFailed(g) /\ g.body.error # "too_large") => res # ResponseFor(g)

\* C9: a request whose Origin the allow-list does not allow mutates nothing.
C9_DisallowedOriginRejected ==
    (req.origin # <<>> /\ ~isOriginAllowed(req.origin)) => NoMutation

\* The bucket and name the handler resolved, as it passed them to the worker
\* or reported them in a skip.
HasResolved == workerCalls # <<>> \/ (Done /\ Outcome = "skipped")
ResolvedBucket == IF workerCalls # <<>> THEN workerCalls[1].bucket ELSE Json.bucket
ResolvedName == IF workerCalls # <<>> THEN workerCalls[1].name ELSE Json.path

ExplicitName ==
    IF ~Falsy(EventRecord.name) THEN EventRecord.name ELSE EventRecord.file_path

\* C10: a bucket stated by the record is never replaced by a derived or
\* default one, a name (or file_path) stated by the record is the resolved
\* name, whatever file_url the record carries; a record stating both is
\* never rejected as missing a locator.
C10_ExplicitBeatsDerived ==
    IsEvent =>
        /\ (HasResolved /\ EventRecord.bucket_id # "")
              => ResolvedBucket = EventRecord.bucket_id
        /\ (HasResolved /\ ~Falsy(ExplicitName)) => ResolvedName = ExplicitName
        /\ (Done /\ Configured /\ Authorized /\ EventRecord.bucket_id # ""
                 /\ ~Falsy(ExplicitName))
              => HasResolved

\* A record stating bucket and name, carrying a file_url of another object,
\* in a deployment with a default bucket, resolved to the stated pair.
C10_Witness ==
    /\ IsEvent /\ workerCalls # <<>>
    /\ DEFAULT_BUCKET_CS # ""
    /\ EventRecord.bucket_id = "uploads"
    /\ EventRecord.name = <<"doc.pdf">>
    /\ EventRecord.file_url # <<>>
    /\ workerCalls[1].bucket = "uploads"
    /\ workerCalls[1].name = <<"doc.pdf">>

----------------------------------------------------------------------------
\* The URL rule as a rule of its own: the segment "object", then public or
\* signed, then the bucket, then the segments of the name.

UrlRuleAt(url) ==
    {i \in 2..(Len(url) - 2) :
        /\ url[i] = "object"
        /\ url[i + 1] \in {"public", "signed"}
        /\ url[i + 2] # ""}

UrlBucketIdx(url) == Least(UrlRuleAt(url)) + 2

\* The URL carries a bucket and at least one segment of a name, all of them
\* decodable.
UrlYieldsLocator(record) ==
    /\ record.file_url # <<>>
    /\ UrlRuleAt(record.file_url) # {}
    /\ UrlBucketIdx(record.file_url) < Len(record.file_url)
    /\ \A k \in UrlBucketIdx(record.file_url)..Len(record.file_url) :
          ~Malformed(record.file_url[k]) /\ record.file_url[k] # ""

UrlBucket(url) == DecodeSeg(url[UrlBucketIdx(url)])

UrlName(url) ==
    [k \in 1..(Len(url) - UrlBucketIdx(url)) |-> DecodeSeg(url[UrlBucketIdx(url) + k])]

\* Some rule yields a bucket and some rule yields a name.
LocatorProducible(record) ==
    /\ record.bucket_id # "" \/ UrlYieldsLocator(record)
    /\ ~Falsy(record.name) \/ ~Falsy(record.file_path) \/ UrlYieldsLocator(record)

\* C11: an event is rejected as missing a locator (400) only when no rule
\* yields a bucket or no rule yields a name: an event whose explicit fields,
\* legacy fields or file_url yield both is never answered 400.
C11_RejectedOnlyWhenUnresolvable ==
    (IsEvent /\ Done /\ Status = 400) => ~LocatorProducible(EventRecord)

----------------------------------------------------------------------------
\* The request is a manual one: a POST to the store endpoint, or a POST to
\* compress-and-store whose body carries no record.
IsManual ==
    /\ req.method = "POST"
    /\ \/ endpoint = "store"
       \/ endpoint = "compress-and-store" /\ extractRecordFromWebhook(req.body) = <<>>

\* The request asks for overwrite.
AsksOverwrite == BodyOf(req).upsert = JsBool(TRUE)

\* Every object stored before the invocation still has its bytes.
NothingReplaced ==
    \A o \in DOMAIN InitialStorage : o \in DOMAIN storage /\ storage[o] = InitialStorage[o]

\* C12: a manual request that does not ask for overwrite has its upload
\* issued with overwrite disabled and replaces the bytes of no object that
\* was already stored.
C12_ManualDefaultsNoOverwrite ==
    (IsManual /\ ~AsksOverwrite) =>
        /\ \A i \in 1..Len(uploads) : ~uploads[i].upsert
        /\ NothingReplaced

----------------------------------------------------------------------------
\* The upload of the invocation resolved without an error.
UploadSucceeded == settled.upload.kind = "resolve" /\ ~settled.upload.error

\* The update of the status record failed: it resolved with an error, which
\* is how the table client reports a request that failed.
UpdateFailed == settled.update.kind = "resolve" /\ settled.update.error

----------------------------------------------------------------------------
\* The input bytes of a manual request: the payload of the store endpoint,
\* and for compress-and-store the downloaded object when a source path is
\* given, the payload otherwise.
StorePayload ==
    IF BodyOf(req).dataBase64.type # "undefined" THEN BodyOf(req).dataBase64
    ELSE BodyOf(req).fileBase64

HasInput ==
    IF endpoint = "store"
    THEN StorePayload.type = "string"
         /\ (BodyOf(req).path # "" \/ BodyOf(req).fileName # "")
    ELSE IF BodyOf(req).supabasePath # ""
    THEN settled.download.kind = "resolve" /\ ~settled.download.error
    ELSE BodyOf(req).fileBase64.type = "string"

InputLen ==
    IF endpoint = "store" THEN StorePayload.len
    ELSE IF BodyOf(req).supabasePath # "" THEN settled.download.len
    ELSE BodyOf(req).fileBase64.len

\* C14: a manual request, authorized and well-formed, whose input bytes have
\* a length of at most the threshold uploads nothing, writes no status
\* record, and ends as skipped.
C14_ManualGateApplies ==
    (IsManual /\ Configured /\ Authorized /\ HasInput /\ InputLen <= MIN_BYTES) =>
        /\ uploads = <<>>
        /\ dbUpdates = <<>>
        /\ Done => Outcome = "skipped"

----------------------------------------------------------------------------
\* The entry has the form *.suffix and the origin ends with .suffix: the
\* last pieces of the origin are, one by one, the pieces of the entry after
\* its "*".
WildcardAdmits(entry, origin) ==
    /\ Len(entry) >= 2
    /\ entry[1] = "*"
    /\ Len(origin) >= Len(entry) - 1
    /\ \A k \in 2..Len(entry) : origin[Len(origin) - Len(entry) + k] = entry[k]

\* The allow-list admits the origin.
Admitted(origin) ==
    /\ origin # <<>>
    /\ \E i \in 1..Len(env.ALLOWED_ORIGINS) :
          \/ env.ALLOWED_ORIGINS[i] = origin
          \/ WildcardAdmits(env.ALLOWED_ORIGINS[i], origin)

\* C15: the handler sets the CORS allow headers for a request exactly when
\* its Origin equals an allow-list entry or ends with the suffix of a
\* *.suffix entry; it sets none before a request is received, none for a
\* request without Origin and none for an Origin no entry matches.
C15_AdmittedIffListed ==
    /\ endpoint = "" => ~corsHeaders
    /\ endpoint # "" => (corsHeaders <=> Admitted(req.origin))
    /\ req.origin = <<>> => ~corsHeaders

\* A subdomain of the wildcard entry was admitted, and it equals no entry.
C15_Witness ==
    /\ Done
    /\ corsHeaders
    /\ req.origin = <<"https://team", ".example", ".org">>
    /\ \A i \in 1..Len(env.ALLOWED_ORIGINS) : env.ALLOWED_ORIGINS[i] # req.origin

----------------------------------------------------------------------------
\* The record states no bucket and no name: its locator is in its file_url.
UrlOnly(record) ==
    /\ record.bucket_id = ""
    /\ Falsy(record.name)
    /\ Falsy(record.file_path)
    /\ UrlYieldsLocator(record)

\* C16: for a record whose locator is in its file_url only, the resolved
\* bucket is the decoded segment after public/ or signed/ and the resolved
\* name is the decoded segments after it, whatever the bucket is called and
\* whether or not a default bucket is configured.
C16_UrlLocatorIsExact ==
    (IsEvent /\ HasResolved /\ UrlOnly(EventRecord)) =>
        /\ ResolvedBucket = UrlBucket(EventRecord.file_url)
        /\ ResolvedName = UrlName(EventRecord.file_url)

----------------------------------------------------------------------------
\* C17: no invocation both calls the worker and uploads to storage. The
\* worker is called by the event path only, with overwrite, and the event
\* path uploads nothing; an upload is issued by a manual request only.
C17_OverwriteOrNewKeyNeverBoth ==
    /\ ~(workerCalls # <<>> /\ uploads # <<>>)
    /\ workerCalls # <<>> =>
          (IsEvent /\ \A i \in 1..Len(workerCalls) : workerCalls[i].overwrite)
    /\ uploads # <<>> => IsManual
    /\ IsEvent => (uploads = <<>> /\ dbUpdates = <<>> /\ storage = InitialStorage)

\* An event was compressed in place by the worker, and the invocation ended
\* with nothing uploaded.
C17_Witness ==
    /\ IsEvent /\ Done
    /\ Len(workerCalls) = 1
    /\ workerCalls[1].overwrite
    /\ Outcome = "done"
    /\ uploads = <<>>

----------------------------------------------------------------------------
\* C18: a status update is issued only after the one upload of the same
\* invocation succeeded; it marks the record done and carries the key the
\* bytes are stored at. A record is done only by such an update, and an
\* invocation that skipped, or whose request, download or upload failed,
\* issued none.
C18_DoneOnlyAfterUpload ==
    /\ dbUpdates # <<>> =>
          /\ Len(dbUpdates) = 1
          /\ Len(uploads) = 1
          /\ UploadSucceeded
          /\ dbUpdates[1].row.compressed_status = "done"
          /\ dbUpdates[1].row.compressed_path = uploads[1].key
          /\ <<uploads[1].bucket, uploads[1].key>> \in DOMAIN storage
          /\ storage[<<uploads[1].bucket, uploads[1].key>>] = uploads[1].len
    /\ \A id \in DOMAIN writingUploads :
          writingUploads[id].compressed_status = "done" =>
              /\ dbUpdates # <<>>
              /\ dbUpdates[1].id = id
              /\ writingUploads[id] = dbUpdates[1].row
    /\ (Done /\ (Outcome \in {"skipped", "rejected", "unauthorized"} \/ ~UploadSucceeded))
          => dbUpdates = <<>>

\* The store endpoint stored the bytes at the caller's path and the record
\* of the external id is done with that path.
C18_Witness ==
    /\ Done
    /\ endpoint = "store"
    /\ writingUploads["w1"].compressed_status = "done"
    /\ writingUploads["w1"].compressed_path = Key("", 0, "new.pdf")
    /\ <<"docs", Key("", 0, "new.pdf")>> \in DOMAIN storage

----------------------------------------------------------------------------
\* C19: with a webhook secret configured, an invocation of compress-and-store
\* whose request does not carry the secret as bearer token uploads nothing
\* and updates no status record, whether its body is an event or a manual
\* request.
C19_NoMutationWithoutToken ==
    (/\ endpoint = "compress-and-store"
     /\ WEBHOOK_SECRET # ""
     /\ BearerToken(req.authorization) # WEBHOOK_SECRET)
    =>  /\ uploads = <<>>
        /\ dbUpdates = <<>>
        /\ storage = InitialStorage
        /\ \A id \in DOMAIN writingUploads : writingUploads[id] = NoRow

----------------------------------------------------------------------------
\* Invocation i of the concurrent invocations returned the success response
\* of manual mode.
Succeeded(i) ==
    /\ pc[i] = "done"
    /\ res[i] # <<>>
    /\ res[i][1].status = 200
    /\ res[i][1].json.ok
    /\ ~res[i][1].json.skipped

\* C20: two concurrent manual invocations that both return success report
\* different keys, and once an invocation has returned success the bytes it
\* reported are the bytes stored at its key.
C20_SuccessKeysDistinct ==
    /\ \A i, j \in Invocations :
          (i # j /\ Succeeded(i) /\ Succeeded(j)) =>
              res[i][1].json.key # res[j][1].json.key
    /\ \A i \in Invocations :
          Succeeded(i) =>
              storage[<<res[i][1].json.bucket, res[i][1].json.key>>] = local[i].inputLen

====
